---- MODULE Spec2Model ----
(***************************************************************************)
(* Model of the Memory Scramble board (Lab3/src/board.ts).                 *)
(*                                                                         *)
(* JavaScript runs one synchronous segment at a time, so one action of the *)
(* model is one segment of a call: from the call (or from the resumption   *)
(* of an await) up to the next await, return or throw.  A call suspended   *)
(* in `await this.watch(..)' is the closure it pushed on `listeners'; once *)
(* notifyAll() has resolved it, it waits in `ready' for its continuation   *)
(* to run.  A map suspended in `await f(..)' waits in `maps'.  PlayerState *)
(* objects are shared by reference between the playerStates map and the    *)
(* local variable `state' of suspended flips, so they live in a small heap *)
(* (`objs').                                                               *)
(***************************************************************************)
EXTENDS Integers, Sequences, FiniteSets, TLC

\* ---------------------------------------------------------------- bounds
\* A run of the model that only flips (and looks) makes at most MaxFlips
\* calls; a run that also calls watch or map makes at most MaxMixed calls in
\* all, at most MaxWatches of them watch calls and MaxMaps of them map calls.
MaxFlips == 5
MaxWatches == 1
MaxMaps == 2
MaxMixed == 3
\* The lines a board file has after its first line, at most.
MaxLines == 4
\* The flip calls of a run that makes no other call (SpecFlips), at most.
MaxFlipsOnly == 6
\* At most this many calls are suspended at a time.
MaxCalls == MaxFlips + MaxWatches

\* ------------------------------------------------------- the loaded board
Height == 2
Width == 2
\* The card tokens of the board file, row-major ("2x2\nA\nB\nB\nA").
InitialCards == <<"A", "B", "B", "A">>
\* The lines of that file.
InitialFile ==
  <<<<"2", "x", "2">>, <<"A">>, <<"B">>, <<"B">>, <<"A">>>>

\* Player ids that make calls, in the order the playerStates map is walked.
PlayerSeq == <<"p1", "p2">>
Players == {PlayerSeq[i] : i \in 1 .. Len(PlayerSeq)}
\* Viewer ids handed to look(); notifyAll() looks with the empty id.
Viewers == Players \cup {""}

\* The value of an absent optional field / an absent map entry.
Undef == "undefined"

Rows == 0 .. (Height - 1)
Cols == 0 .. (Width - 1)
Pos == Rows \X Cols
\* Coordinates a caller may pass to flip(): every cell of the board, and one
\* coordinate beyond each of its four edges.
ArgPos == Pos \cup {<<0 - 1, 0>>, <<Height, 0>>, <<0, 0 - 1>>, <<0, Width>>}
\* An absent optional coordinate (firstCard?, secondCard?).
NoCard == <<>>

\* Board.noneCard: the sentinel "second card" of a failed second flip.
noneCard == <<0 - 19527, 0 - 19527>>

\* PlayerState objects: one per player and one per suspended flip at most.
ObjIds == 1 .. (Len(PlayerSeq) + MaxCalls)

\* Row-major position of the k-th cell (k from 0).
posOf(k) == <<k \div Width, k % Width>>

\* ------------------------------------------------------------- map inputs
\* The functions handed to map(): the two suffixing functions of the test
\* "handles multiple simultaneous mappings", card => card + '_1' and
\* card => card + '_2', each given by its suffix.
MapFns == {"_1", "_2"}
\* The player ids map() is called with (the id only selects the viewer of the
\* snapshot that map returns).
MapCallers == {"p1"}

\* f(card): deterministic, from cards to cards.
applyF(f, card) == card \o f

\* ------------------------------------------------------------ data types
\* type CardCell
newCell(card) == [card |-> card, faceUp |-> FALSE, controller |-> Undef]
\* type PlayerState, as created by { hasMatch: false }
newPlayerState == [firstCard |-> NoCard, secondCard |-> NoCard, hasMatch |-> FALSE]

\* The fields a suspended call keeps across its await.
NoTask ==
  [op |-> "none", player |-> "", pos |-> <<0, 0>>, loc |-> "none", state |-> 0,
   f |-> "", key |-> "", cur |-> 0,
   repl |-> {}, result |-> <<>>, start |-> <<>>, since |-> 0]

\* --------------------------------------------------------- parseFromFile
\* A file is the sequence of its lines, a line the sequence of its characters.
Space == " "
Digits == <<"0", "1", "2", "3", "4", "5", "6", "7", "8", "9">>
\* NaN, as a number that no line of the files tried reads as.
NaN == 0 - 99999
isNaN(n) == n = NaN

\* String.prototype.trim() on one line.
RECURSIVE trimStart(_)
trimStart(l) ==
  IF l # <<>> /\ Head(l) = Space THEN trimStart(Tail(l)) ELSE l
RECURSIVE trimEnd(_)
trimEnd(l) ==
  IF l # <<>> /\ l[Len(l)] = Space THEN trimEnd(SubSeq(l, 1, Len(l) - 1)) ELSE l
trim(l) == trimEnd(trimStart(l))

\* content.trim().split('\n'): blank lines at both ends go with the white
\* space, and the empty content splits into one empty line.
RECURSIVE dropBlankStart(_)
dropBlankStart(ls) ==
  IF ls # <<>> /\ trim(Head(ls)) = <<>> THEN dropBlankStart(Tail(ls)) ELSE ls
RECURSIVE dropBlankEnd(_)
dropBlankEnd(ls) ==
  IF ls # <<>> /\ trim(ls[Len(ls)]) = <<>>
  THEN dropBlankEnd(SubSeq(ls, 1, Len(ls) - 1))
  ELSE ls
linesOf(content) ==
  LET ls == dropBlankEnd(dropBlankStart(content))
  IN IF ls = <<>>
     THEN << <<>> >>
     ELSE [ls EXCEPT ![1] = trimStart(@), ![Len(ls)] = trimEnd(@)]

\* String.prototype.split(sep) with a one-character separator.
RECURSIVE split(_, _)
split(l, sep) ==
  IF \E i \in 1 .. Len(l) : l[i] = sep
  THEN LET i == CHOOSE k \in 1 .. Len(l) :
                  l[k] = sep /\ \A j \in 1 .. (k - 1) : l[j] # sep
       IN <<SubSeq(l, 1, i - 1)>> \o split(SubSeq(l, i + 1, Len(l)), sep)
  ELSE <<l>>

\* Number.parseInt(l, 10): white space, an optional sign, then the longest
\* run of digits; NaN when there is no digit.
isDigit(c) == \E d \in 0 .. 9 : Digits[d + 1] = c
digitOf(c) == CHOOSE d \in 0 .. 9 : Digits[d + 1] = c
RECURSIVE parseDigits(_, _)
parseDigits(l, acc) ==
  IF l # <<>> /\ isDigit(Head(l))
  THEN parseDigits(Tail(l), acc * 10 + digitOf(Head(l)))
  ELSE acc
parseInt(l) ==
  LET t == trimStart(l)
      signed == t # <<>> /\ Head(t) \in {"-", "+"}
      u == IF signed THEN Tail(t) ELSE t
  IN IF u = <<>> \/ ~isDigit(Head(u))
     THEN NaN
     ELSE IF signed /\ Head(t) = "-"
          THEN 0 - parseDigits(u, 0)
          ELSE parseDigits(u, 0)

\* The string of a line, and a number as a template literal prints it.
RECURSIVE strOf(_)
strOf(l) == IF l = <<>> THEN "" ELSE Head(l) \o strOf(Tail(l))
RECURSIVE numStr(_)
numStr(n) ==
  IF n < 0 THEN "-" \o numStr(0 - n)
  ELSE IF n < 10 THEN Digits[n + 1]
  ELSE numStr(n \div 10) \o Digits[(n % 10) + 1]

\* new Board(height, width, cards), cards given row-major.
newBoard(height, width, cards) ==
  [height |-> height, width |-> width,
   board |-> [p \in (0 .. (height - 1)) \X (0 .. (width - 1)) |->
                newCell(cards[p[1] * width + p[2] + 1])]]

\* cardCounts.get(card) once every card is counted.
cardCount(cards, card) == Cardinality({i \in 1 .. Len(cards) : cards[i] = card})
\* The positions of the cards that appear an odd number of times.
oddCards(cards) ==
  {i \in 1 .. Len(cards) : cardCount(cards, cards[i]) % 2 # 0}

Resolved(value) == [kind |-> "return", value |-> value]
Rejected(msg) == [kind |-> "throw", value |-> msg]
\* parseFromFile() has not run.
Pending == [kind |-> "pending", value |-> ""]

parseCards(lines, height, width) ==
  LET trimmed == [i \in 1 .. (Len(lines) - 1) |-> trim(lines[i + 1])]
      allCards == SelectSeq(trimmed, LAMBDA l : l # <<>>)
      cards == [i \in 1 .. Len(allCards) |-> strOf(allCards[i])]
      totalCards == height * width
      odd == oddCards(cards)
      first == CHOOSE i \in odd : \A j \in odd : i <= j
  IN IF totalCards % 2 # 0
     THEN Rejected("total number of cards must be even")
     ELSE IF Len(allCards) # totalCards
     THEN Rejected("expected " \o numStr(totalCards) \o " cards ("
                   \o numStr(height) \o "x" \o numStr(width)
                   \o "), but got " \o numStr(Len(allCards)) \o " cards")
     ELSE IF odd # {}
     THEN Rejected("card \"" \o cards[first] \o "\" appears "
                   \o numStr(cardCount(cards, cards[first]))
                   \o " times, which is not a multiple of 2")
     ELSE Resolved(newBoard(height, width, cards))

parseFromFile(content) ==
  LET lines == linesOf(content)
      firstLine == trim(lines[1])
      dimensionParts == split(firstLine, "x")
      height == parseInt(trim(dimensionParts[1]))
      width == parseInt(trim(dimensionParts[2]))
  IN IF firstLine = <<>>
     THEN Rejected("empty board file")
     ELSE IF \/ Len(dimensionParts) # 2
             \/ trim(dimensionParts[1]) = <<>>
             \/ trim(dimensionParts[2]) = <<>>
     THEN Rejected("invalid board dimensions format")
     ELSE IF isNaN(height) \/ isNaN(width)
     THEN Rejected("invalid board dimensions")
     ELSE IF height <= 0 \/ width <= 0
     THEN Rejected("invalid board dimensions")
     ELSE IF Len(lines) < height + 1
     THEN Rejected("insufficient board rows")
     ELSE parseCards(lines, height, width)

\* -------------------------------------------------------------- variables
VARIABLES
  content,      \* the lines of the board file
  parsed,       \* what parseFromFile(filename) gave
  board,        \* Board.board: Pos -> CardCell
  objs,         \* heap of PlayerState objects
  playerStates, \* Board.playerStates: player -> object id (0: no entry)
  listeners,    \* Board.listeners: the resolvers, i.e. the calls awaiting watch()
  claimLocks,   \* Board.claimLocks: Pos -> owner (Undef: no entry)
  ready,        \* calls whose watch() is resolved and whose continuation is queued
  maps,         \* map calls awaiting f(card)
  calls         \* the numbers of flip, map and watch calls made so far

vars ==
  <<content, parsed, board, objs, playerStates, listeners, claimLocks, ready,
    maps, calls>>

\* The fields of the Board object and the suspended calls, as one value the
\* methods transform.
This ==
  [board |-> board, objs |-> objs, playerStates |-> playerStates,
   listeners |-> listeners, claimLocks |-> claimLocks, ready |-> ready,
   maps |-> maps]

\* ------------------------------------------------------------------ look
\* checkRepFunctions(): the assertions evaluated at the end of the public methods.
checkRepFunctions(s) ==
  /\ Height > 0
  /\ Width > 0
  /\ \A p \in Pos :
       /\ (Len(s.board[p].card) = 0 =>
             (~s.board[p].faceUp /\ s.board[p].controller = Undef))
       /\ (s.board[p].controller # Undef => s.board[p].faceUp)

\* `${status} ${text}`.trim(): card labels carry no white space of their own,
\* so only the blank after a status without text is trimmed.
\* The line look() pushes for one cell.
cellLine(cell, playerId) ==
  LET status == IF Len(cell.card) = 0 THEN "none"
                ELSE IF cell.controller = playerId /\ cell.faceUp THEN "my"
                ELSE "up"
      text == IF Len(cell.card) = 0 THEN "" ELSE cell.card
  IN IF text = "" THEN status ELSE status \o " " \o text

\* look(playerId): the lines of the snapshot (joined by "\n" in the code).
look(s, playerId) ==
  [i \in 1 .. (Height * Width + 1) |->
     IF i = 1 THEN ToString(Height) \o "x" \o ToString(Width)
     ELSE cellLine(s.board[posOf(i - 2)], playerId)]

\* ------------------------------------------------------------- notifyAll
\* resolve with a fault: the resolver hands on the snapshot notifyAll() passes
\* to it, which is the one of viewer "".
resolveShared(s, k) ==
  [k EXCEPT !.result = IF k.op = "watch" THEN look(s, "") ELSE <<>>]

\* What a resolver does when notifyAll() runs it: () => resolve(this.look(playerId)).
\* A flip awaits watch() for the wake-up alone and drops the snapshot.
resolve(s, k) ==
  [k EXCEPT !.result = IF k.op = "watch" THEN look(s, k.player) ELSE <<>>]

\* notifyAll(): drain the listeners and run each resolver, in order.
notifyAll(s) ==
  [s EXCEPT
     !.listeners = <<>>,
     !.ready = s.ready \o [i \in 1 .. Len(s.listeners) |-> resolve(s, s.listeners[i])]]

\* watch(playerId), called by the suspending call k: push the resolver.
watch(s, k) == [s EXCEPT !.listeners = Append(s.listeners, k)]

\* ----------------------------------------------------------------- claims
\* tryClaimCell(row, col, owner): the result and the board afterwards.
canClaim(s, pos) == s.claimLocks[pos] = Undef
tryClaimCell(s, pos, owner) ==
  IF canClaim(s, pos) THEN [s EXCEPT !.claimLocks[pos] = owner] ELSE s

releaseClaim(s, pos, owner) ==
  IF s.claimLocks[pos] = owner THEN [s EXCEPT !.claimLocks[pos] = Undef] ELSE s

\* ------------------------------------------------------------------ heap
\* Every reference to a PlayerState object, in a fixed order: the map's
\* entries, then the `state' of the suspended flips.
stateRefs(s) ==
  [i \in 1 .. Len(PlayerSeq) |-> s.playerStates[PlayerSeq[i]]]
    \o [i \in 1 .. Len(s.listeners) |-> s.listeners[i].state]
    \o [i \in 1 .. Len(s.ready) |-> s.ready[i].state]

\* The objects something still refers to.
liveObjs(s) == {stateRefs(s)[i] : i \in 1 .. Len(stateRefs(s))} \ {0}

\* A fresh object for { hasMatch: false }.
freshObj(s) == CHOOSE o \in ObjIds : o \notin liveObjs(s)

\* Object identities are not observable: after each segment the live objects
\* are renumbered in the order of their first reference, and the others are
\* collected.
collect(s) ==
  LET refs == stateRefs(s)
      live == {refs[i] : i \in 1 .. Len(refs)} \ {0}
      first == [o \in live |->
                  CHOOSE i \in 1 .. Len(refs) :
                    refs[i] = o /\ \A j \in 1 .. (i - 1) : refs[j] # o]
      new == [o \in live \cup {0} |->
                IF o = 0 THEN 0
                ELSE Cardinality({q \in live : first[q] < first[o]}) + 1]
      old == [n \in 1 .. Cardinality(live) |-> CHOOSE o \in live : new[o] = n]
  IN [s EXCEPT
        !.objs = [n \in ObjIds |->
                    IF n <= Cardinality(live) THEN s.objs[old[n]]
                    ELSE newPlayerState],
        !.playerStates = [p \in Players |-> new[s.playerStates[p]]],
        !.listeners = [i \in 1 .. Len(s.listeners) |->
                         [s.listeners[i] EXCEPT !.state = new[@]]],
        !.ready = [i \in 1 .. Len(s.ready) |->
                     [s.ready[i] EXCEPT !.state = new[@]]]]

\* this.playerStates.set(playerId, { hasMatch: false })
setNewState(s, playerId) ==
  LET o == freshObj(s)
  IN [s EXCEPT !.objs[o] = newPlayerState, !.playerStates[playerId] = o]

\* The PlayerState the map holds for a player.
stateOf(s, playerId) == s.objs[s.playerStates[playerId]]

\* --------------------------------------------------- cleanupPreviousMove
\* isCardInPlayerStates(row, col): another player's state names the cell.
isCardInPlayerStates(s, playerId, pos) ==
  \E pid \in Players :
    /\ pid # playerId
    /\ s.playerStates[pid] # 0
    /\ \/ stateOf(s, pid).firstCard = pos
       \/ stateOf(s, pid).secondCard = pos

\* removeCard with a fault: the cell is hidden and released but keeps its label.
removeCardKeepsLabel(s, pos) ==
  IF pos \in Pos
  THEN [s EXCEPT !.board[pos].faceUp = FALSE, !.board[pos].controller = Undef]
  ELSE s

\* removeCard with a fault: the removed card keeps its controller.
removeCardKeepsController(s, pos) ==
  IF pos \in Pos
  THEN [s EXCEPT !.board[pos].card = "", !.board[pos].faceUp = FALSE]
  ELSE s

\* Rule 3-A for one of the two cards: the cell, if it exists, loses its card.
removeCard(s, pos) ==
  IF pos \in Pos
  THEN [s EXCEPT !.board[pos] = [card |-> "", faceUp |-> FALSE, controller |-> Undef]]
  ELSE s

\* turnFaceDown with a fault: it does not ask whether another player's state
\* names the cell.
turnFaceDownUnchecked(s, playerId, pos) ==
  IF /\ pos \in Pos
     /\ s.board[pos].faceUp
     /\ s.board[pos].controller = Undef
  THEN [s EXCEPT !.board[pos].faceUp = FALSE]
  ELSE s

\* turnFaceDown with a fault: it does not ask whether the card is controlled.
turnFaceDownControlled(s, playerId, pos) ==
  IF /\ pos \in Pos
     /\ s.board[pos].faceUp
     /\ ~isCardInPlayerStates(s, playerId, pos)
  THEN [s EXCEPT !.board[pos].faceUp = FALSE]
  ELSE s

\* turnFaceDown with a fault: the walk over the player states does not skip
\* the player's own state, which names the cell.
turnFaceDownOwnState(s, playerId, pos) ==
  IF /\ pos \in Pos
     /\ s.board[pos].faceUp
     /\ s.board[pos].controller = Undef
     /\ ~isCardInPlayerStates(s, "", pos)
  THEN [s EXCEPT !.board[pos].faceUp = FALSE]
  ELSE s

\* Rule 3-B for one of the two cards.
turnFaceDown(s, playerId, pos) ==
  IF /\ pos \in Pos
     /\ s.board[pos].faceUp
     /\ s.board[pos].controller = Undef
     /\ ~isCardInPlayerStates(s, playerId, pos)
  THEN [s EXCEPT !.board[pos].faceUp = FALSE]
  ELSE s

\* cleanupPreviousMove(playerId)
cleanupPreviousMove(s, playerId) ==
  IF s.playerStates[playerId] = 0 THEN s
  ELSE
    LET state == stateOf(s, playerId)
        both == state.firstCard # NoCard /\ state.secondCard # NoCard
    IN IF state.hasMatch /\ both
       THEN setNewState(removeCard(removeCard(s, state.firstCard), state.secondCard),
                        playerId)
       ELSE IF ~state.hasMatch /\ both
       THEN LET s1 == turnFaceDown(s, playerId, state.firstCard)
            IN IF state.secondCard = noneCard
               THEN notifyAll(setNewState(s1, playerId))
               ELSE setNewState(turnFaceDown(s1, playerId, state.secondCard), playerId)
       ELSE s

\* ------------------------------------------------------------------ flip
\* How a segment of a call ends: it returns a value, throws a message, or
\* suspends at an await (loc); o is the PlayerState object `state' refers to.
Return(s, value) == [s |-> s, kind |-> "return", value |-> value]
Throw(s, msg) == [s |-> s, kind |-> "throw", value |-> <<msg>>]
Suspend(s) == [s |-> s, kind |-> "suspend", value |-> <<>>]

\* const out = this.look(playerId); this.checkRepFunctions(); return out;
\* look() and the method evaluate the assertions on the fields as s has them,
\* a failed assertion throws, and the segment leaves the fields as sOut.
lookAndReturn(s, sOut, playerId) ==
  IF checkRepFunctions(s)
  THEN Return(sOut, look(s, playerId))
  ELSE Throw(sOut, "AssertionError")

\* lookCall with a fault: look() drains the listeners.
lookCallDrains(s, playerId) ==
  lookAndReturn(s, [s EXCEPT !.listeners = <<>>], playerId)

\* The call look(playerId).
lookCall(s, playerId) == lookAndReturn(s, s, playerId)

\* What a flip keeps across an await: its arguments, the await it is at, and
\* the PlayerState object its local variable `state' refers to.
flipTask(playerId, pos, loc, o) ==
  [NoTask EXCEPT !.op = "flip", !.player = playerId, !.pos = pos, !.loc = loc,
                 !.state = o]

\* controlledByOther with a fault: the comparison with playerId is inverted.
controlledByOtherInverted(cell, playerId) ==
  cell.controller # Undef /\ cell.controller = playerId

\* typeof cell.controller === 'string' && cell.controller !== playerId
controlledByOther(cell, playerId) ==
  cell.controller # Undef /\ cell.controller # playerId

\* takeFirstCard with a fault: the change is not published.
takeFirstCardSilent(s, playerId, pos, o) ==
  LET s1 == [s EXCEPT !.board[pos].faceUp = TRUE,
                      !.board[pos].controller = playerId,
                      !.objs[o].firstCard = pos,
                      !.playerStates[playerId] = o]
  IN lookAndReturn(s1, releaseClaim(s1, pos, playerId), playerId)

\* takeFirstCard with a fault: the claim is not released on return.
takeFirstCardKeepsClaim(s, playerId, pos, o) ==
  LET s1 == [s EXCEPT !.board[pos].faceUp = TRUE,
                      !.board[pos].controller = playerId,
                      !.objs[o].firstCard = pos,
                      !.playerStates[playerId] = o]
      s2 == notifyAll(s1)
  IN lookAndReturn(s2, s2, playerId)

\* Rules 1-B and 1-C, under the claim: take the card, publish, snapshot.
takeFirstCard(s, playerId, pos, o) ==
  LET s1 == [s EXCEPT !.board[pos].faceUp = TRUE,
                      !.board[pos].controller = playerId,
                      !.objs[o].firstCard = pos,
                      !.playerStates[playerId] = o]
      s2 == notifyAll(s1)
  IN lookAndReturn(s2, releaseClaim(s2, pos, playerId), playerId)

\* One pass of the for (;;) loop of the first flip, from its top.
claimLoop(s, playerId, pos, o) ==
  IF Len(s.board[pos].card) = 0
  THEN Throw(s, "card was removed while waiting")
  ELSE IF controlledByOther(s.board[pos], playerId)
  THEN Suspend(watch(s, flipTask(playerId, pos, "W2", o)))
  ELSE IF canClaim(s, pos)
  THEN LET s1 == tryClaimCell(s, pos, playerId)
       IN IF Len(s1.board[pos].card) = 0
          THEN Throw(releaseClaim(s1, pos, playerId), "card was removed while waiting")
          ELSE IF controlledByOther(s1.board[pos], playerId)
          THEN Suspend(watch(s1, flipTask(playerId, pos, "W3", o)))
          ELSE takeFirstCard(s1, playerId, pos, o)
  ELSE Suspend(watch(s, flipTask(playerId, pos, "W4", o)))

\* waitLoop with a fault: the cell is claimed before the wait of Rule 1-D.
waitLoopClaimsFirst(s, playerId, pos, o) ==
  IF s.board[pos].faceUp /\ controlledByOther(s.board[pos], playerId)
  THEN Suspend(watch(tryClaimCell(s, pos, playerId),
                     flipTask(playerId, pos, "W1", o)))
  ELSE claimLoop(s, playerId, pos, o)

\* Rule 1-D: the while loop that waits for the controller to let go.
waitLoop(s, playerId, pos, o) ==
  IF s.board[pos].faceUp /\ controlledByOther(s.board[pos], playerId)
  THEN Suspend(watch(s, flipTask(playerId, pos, "W1", o)))
  ELSE claimLoop(s, playerId, pos, o)

\* firstFlipResume with a fault: the test for a removed card after the wait
\* of Rule 1-D is inverted.
firstFlipResumeInverted(s, playerId, pos, o, loc) ==
  IF loc = "W1"
  THEN IF Len(s.board[pos].card) # 0
       THEN Throw(s, "card was removed while waiting")
       ELSE waitLoop(s, playerId, pos, o)
  ELSE IF loc = "W3"
  THEN claimLoop(releaseClaim(s, pos, playerId), playerId, pos, o)
  ELSE claimLoop(s, playerId, pos, o)

\* The first flip after the await at loc has been resolved.
firstFlipResume(s, playerId, pos, o, loc) ==
  IF loc = "W1"
  THEN IF Len(s.board[pos].card) = 0
       THEN Throw(s, "card was removed while waiting")
       ELSE waitLoop(s, playerId, pos, o)
  ELSE IF loc = "W3"
  THEN claimLoop(releaseClaim(s, pos, playerId), playerId, pos, o)
  ELSE claimLoop(s, playerId, pos, o)

\* giveUpFirstCard with a fault: the state does not record that the second
\* flip has failed.
giveUpFirstCardKeepsState(s, o) ==
  IF s.objs[o].firstCard \in Pos
  THEN notifyAll([s EXCEPT !.board[s.objs[o].firstCard].controller = Undef])
  ELSE s

\* giveUpFirstCard with a fault: the first card keeps its controller.
giveUpFirstCardKeepsControl(s, o) ==
  IF s.objs[o].firstCard \in Pos
  THEN notifyAll([s EXCEPT !.objs[o].secondCard = noneCard])
  ELSE s

\* giveUpFirstCard with a fault: the waiters are not woken.
giveUpFirstCardSilent(s, o) ==
  IF s.objs[o].firstCard \in Pos
  THEN [s EXCEPT !.board[s.objs[o].firstCard].controller = Undef,
                 !.objs[o].secondCard = noneCard]
  ELSE s

\* Rules 1-A, 2-A and 2-B on failure: give up the first card, remember that
\* there is no second card, wake the waiters.
giveUpFirstCard(s, o) ==
  IF s.objs[o].firstCard \in Pos
  THEN notifyAll([s EXCEPT !.board[s.objs[o].firstCard].controller = Undef,
                           !.objs[o].secondCard = noneCard])
  ELSE s

\* secondFlip with a fault: on a card another player controls it waits as
\* Rule 1-D does.
secondFlipWaits(s, playerId, pos, o) ==
  IF s.board[pos].faceUp /\ controlledByOther(s.board[pos], playerId)
  THEN Suspend(watch(s, flipTask(playerId, pos, "W1", o)))
  ELSE IF s.board[pos].faceUp /\ s.board[pos].controller # Undef
  THEN Throw(giveUpFirstCard(s, o), "card is controlled by another player")
  ELSE
    LET first == s.objs[o].firstCard
        s1 == [s EXCEPT !.board[pos].faceUp = TRUE]
        s2 == IF s1.board[pos].card = s1.board[first].card
              THEN [s1 EXCEPT !.board[pos].controller = playerId,
                              !.objs[o].hasMatch = TRUE,
                              !.board[first].controller = playerId,
                              !.objs[o].secondCard = pos]
              ELSE [s1 EXCEPT !.board[pos].controller = Undef,
                              !.board[first].controller = Undef,
                              !.objs[o].secondCard = pos,
                              !.objs[o].hasMatch = FALSE]
        s3 == notifyAll([s2 EXCEPT !.playerStates[playerId] = o])
    IN lookAndReturn(s3, s3, playerId)

\* Rules 2-B .. 2-E: the second flip.
secondFlip(s, playerId, pos, o) ==
  IF s.board[pos].faceUp /\ s.board[pos].controller # Undef
  THEN Throw(giveUpFirstCard(s, o), "card is controlled by another player")
  ELSE
    LET first == s.objs[o].firstCard
        s1 == [s EXCEPT !.board[pos].faceUp = TRUE]
    IN IF first \notin Pos
       THEN Throw([s1 EXCEPT !.objs[o].firstCard = NoCard], "first card no longer exists")
       ELSE
         LET s2 == IF s1.board[pos].card = s1.board[first].card
                   THEN [s1 EXCEPT !.board[pos].controller = playerId,
                                   !.objs[o].hasMatch = TRUE,
                                   !.board[first].controller = playerId,
                                   !.objs[o].secondCard = pos]
                   ELSE [s1 EXCEPT !.board[pos].controller = Undef,
                                   !.board[first].controller = Undef,
                                   !.objs[o].secondCard = pos,
                                   !.objs[o].hasMatch = FALSE]
             s3 == notifyAll([s2 EXCEPT !.playerStates[playerId] = o])
         IN lookAndReturn(s3, s3, playerId)

\* flip with a fault: the lazy cleanup runs before the bounds check.
flipCleanupFirst(s, playerId, row, col) ==
  LET s0 == IF s.playerStates[playerId] = 0 THEN setNewState(s, playerId) ELSE s
      s1 == cleanupPreviousMove(s0, playerId)
      o == s1.playerStates[playerId]
      pos == <<row, col>>
  IN IF row < 0 \/ row >= Height \/ col < 0 \/ col >= Width
     THEN Throw(s1, "invalid card position")
     ELSE IF Len(s1.board[pos].card) = 0
     THEN IF s1.objs[o].firstCard # NoCard
          THEN Throw(giveUpFirstCard(s1, o), "invalid card position")
          ELSE Throw(s1, "invalid card position")
     ELSE IF s1.objs[o].firstCard = NoCard
     THEN waitLoop(s1, playerId, pos, o)
     ELSE secondFlip(s1, playerId, pos, o)

\* flip with a fault: a target without a card is not rejected before the
\* rules for the first and the second card.
flipEmptyUnchecked(s, playerId, row, col) ==
  LET s0 == IF s.playerStates[playerId] = 0 THEN setNewState(s, playerId) ELSE s
  IN IF row < 0 \/ row >= Height \/ col < 0 \/ col >= Width
     THEN Throw(s0, "invalid card position")
     ELSE
       LET s1 == cleanupPreviousMove(s0, playerId)
           o == s1.playerStates[playerId]
           pos == <<row, col>>
       IN IF s1.objs[o].firstCard = NoCard
          THEN waitLoop(s1, playerId, pos, o)
          ELSE secondFlip(s1, playerId, pos, o)

\* flip(playerId, row, column) up to its first await, return or throw.
flip(s, playerId, row, col) ==
  LET s0 == IF s.playerStates[playerId] = 0 THEN setNewState(s, playerId) ELSE s
  IN IF row < 0 \/ row >= Height \/ col < 0 \/ col >= Width
     THEN Throw(s0, "invalid card position")
     ELSE
       LET s1 == cleanupPreviousMove(s0, playerId)
           o == s1.playerStates[playerId]
           pos == <<row, col>>
       IN IF Len(s1.board[pos].card) = 0
          THEN IF s1.objs[o].firstCard # NoCard
               THEN Throw(giveUpFirstCard(s1, o), "invalid card position")
               ELSE Throw(s1, "invalid card position")
          ELSE IF s1.objs[o].firstCard = NoCard
          THEN waitLoop(s1, playerId, pos, o)
          ELSE secondFlip(s1, playerId, pos, o)

\* ------------------------------------------------------------------- map
\* replacements.get(card) ?? card, for the Map kept as a set of entries.
replGet(repl, card) ==
  IF \E e \in repl : e[1] = card
  THEN (CHOOSE e \in repl : e[1] = card)[2]
  ELSE card

\* replacements.set(key, value)
replSet(repl, key, value) == {e \in repl : e[1] # key} \cup {<<key, value>>}

\* What a map keeps across `await f(cell.card)': the cell it is at, the key
\* it evaluated before the await, and the replacements so far.  `start' is
\* not in the code: it remembers the labels the board had when the call began.
mapTask(playerId, f, k, key, repl, start) ==
  [NoTask EXCEPT !.op = "map", !.player = playerId, !.f = f, !.cur = k,
                 !.key = key, !.repl = repl, !.start = start]

\* The sweep of map() over the cells from the k-th on, up to the next await
\* or to the end (notifyAll, snapshot).
RECURSIVE mapSweep(_, _, _, _, _, _)
mapSweep(s, playerId, f, k, repl, start) ==
  IF k >= Height * Width
  THEN LET s1 == notifyAll(s) IN lookAndReturn(s1, s1, playerId)
  ELSE
    LET card == s.board[posOf(k)].card
    IN IF Len(card) = 0
       THEN mapSweep(s, playerId, f, k + 1, repl, start)
       ELSE IF ~(\E e \in repl : e[1] = card)
       THEN Suspend([s EXCEPT !.maps = Append(s.maps,
                               mapTask(playerId, f, k, card, repl, start))])
       ELSE mapSweep([s EXCEPT !.board[posOf(k)].card = replGet(repl, card)],
                     playerId, f, k + 1, repl, start)

\* map(playerId, f) up to its first await or its return.
labelsOf(s) == [k \in 1 .. (Height * Width) |-> s.board[posOf(k - 1)].card]
map(s, playerId, f) == mapSweep(s, playerId, f, 0, {}, labelsOf(s))

\* mapResume with a fault: the replacement is remembered but the cell whose
\* label was awaited is not written.
mapResumeSkipsCell(s, task) ==
  LET repl == replSet(task.repl, task.key, applyF(task.f, task.key))
  IN mapSweep(s, task.player, task.f, task.cur + 1, repl, task.start)

\* map() after `await f(key)' has been resolved.
mapResume(s, task) ==
  LET repl == replSet(task.repl, task.key, applyF(task.f, task.key))
      pos == posOf(task.cur)
      s1 == [s EXCEPT !.board[pos].card = replGet(repl, s.board[pos].card)]
  IN mapSweep(s1, task.player, task.f, task.cur + 1, repl, task.start)

\* --------------------------------------------------------------- actions
\* A sequence without its i-th element.
Without(q, i) == SubSeq(q, 1, i - 1) \o SubSeq(q, i + 1, Len(q))

\* `since' is not in the code: a suspended map remembers how many calls had
\* been made when it was called, as long as no call was in progress then and
\* none has been made since; otherwise it is -1.
settled(k, n) ==
  [k EXCEPT !.since = IF @ >= 0 /\ @ + 1 = n THEN @ ELSE 0 - 1]

\* The state after a segment that ended as r.
Commit(r) ==
  LET s == collect(r.s)
      n == calls'.flip + calls'.map + calls'.watch
  IN /\ board' = s.board
     /\ objs' = s.objs
     /\ playerStates' = s.playerStates
     /\ listeners' = s.listeners
     /\ claimLocks' = s.claimLocks
     /\ ready' = s.ready
     /\ UNCHANGED <<content, parsed>>
     /\ maps' = [i \in 1 .. Len(s.maps) |-> settled(s.maps[i], n)]

\* The calls a run may still make.
total == calls.flip + calls.map + calls.watch
mixed == calls.map + calls.watch > 0
mayFlip == calls.flip < MaxFlips /\ (mixed => total < MaxMixed)
mayWatch == calls.watch < MaxWatches /\ total < MaxMixed
mayMap == calls.map < MaxMaps /\ total < MaxMixed

\* A player calls flip(playerId, row, col).
FlipCall(playerId, row, col) ==
  /\ mayFlip
  /\ calls' = [calls EXCEPT !.flip = @ + 1]
  /\ Commit(flip(This, playerId, row, col))

\* The continuation of a suspended flip: ready[i] goes on after its await.
flipResume(s, i) ==
  LET k == s.ready[i]
  IN firstFlipResume([s EXCEPT !.ready = Without(s.ready, i)],
                     k.player, k.pos, k.state, k.loc)

FlipResume(i) ==
  /\ i \in 1 .. Len(ready)
  /\ ready[i].op = "flip"
  /\ UNCHANGED calls
  /\ Commit(flipResume(This, i))

\* The map suspended by this segment carries n as its `since'.
stamp(r, n) ==
  IF r.kind = "suspend"
  THEN [r EXCEPT !.s.maps[Len(r.s.maps)].since = n]
  ELSE r

\* A player calls map(playerId, f).
MapCall(playerId, f) ==
  /\ mayMap
  /\ calls' = [calls EXCEPT !.map = @ + 1]
  /\ Commit(stamp(map(This, playerId, f),
                  IF maps = <<>> /\ ready = <<>> THEN total ELSE 0 - 1))

\* The promise of f(key) is resolved and maps[i] goes on.
MapResume(i) ==
  /\ i \in 1 .. Len(maps)
  /\ UNCHANGED calls
  /\ Commit(stamp(mapResume([This EXCEPT !.maps = Without(maps, i)], maps[i]),
                  maps[i].since))

\* A player calls watch(playerId).
\* `start' is not in the code: it remembers what the cells showed when the
\* watch was registered.
shownOf(s) ==
  [k \in 1 .. (Height * Width) |->
     <<s.board[posOf(k - 1)].card, s.board[posOf(k - 1)].faceUp>>]

watchCall(s, playerId) ==
  LET s1 == watch(s, [NoTask EXCEPT !.op = "watch", !.player = playerId,
                                    !.start = shownOf(s)])
  IN IF checkRepFunctions(s1) THEN Suspend(s1) ELSE Throw(s1, "AssertionError")

WatchCall(playerId) ==
  /\ mayWatch
  /\ calls' = [calls EXCEPT !.watch = @ + 1]
  /\ Commit(watchCall(This, playerId))

\* A resolved watch() hands its snapshot to its caller.
watchResume(s, i) ==
  Return([s EXCEPT !.ready = Without(s.ready, i)], s.ready[i].result)

WatchResume(i) ==
  /\ i \in 1 .. Len(ready)
  /\ ready[i].op = "watch"
  /\ UNCHANGED calls
  /\ Commit(watchResume(This, i))

\* A viewer calls look(playerId): it reads and changes nothing.
Look(playerId) ==
  LET s == lookCall(This, playerId).s
  IN /\ board' = s.board
     /\ objs' = s.objs
     /\ playerStates' = s.playerStates
     /\ listeners' = s.listeners
     /\ claimLocks' = s.claimLocks
     /\ ready' = s.ready
     /\ maps' = s.maps
     /\ UNCHANGED <<content, parsed, calls>>

Init ==
  /\ content = InitialFile
  /\ parsed = parseFromFile(content)
  /\ board = [p \in Pos |-> newCell(InitialCards[p[1] * Width + p[2] + 1])]
  /\ objs = [o \in ObjIds |-> newPlayerState]
  /\ playerStates = [p \in Players |-> 0]
  /\ listeners = <<>>
  /\ claimLocks = [p \in Pos |-> Undef]
  /\ ready = <<>>
  /\ maps = <<>>
  /\ calls = [flip |-> 0, map |-> 0, watch |-> 0]

Next ==
  \/ \E p \in Players, a \in ArgPos : FlipCall(p, a[1], a[2])
  \/ \E i \in 1 .. MaxCalls : FlipResume(i)
  \/ \E p \in MapCallers, f \in MapFns : MapCall(p, f)
  \/ \E i \in 1 .. MaxCalls : MapResume(i)
  \/ \E p \in Players : WatchCall(p)
  \/ \E i \in 1 .. MaxCalls : WatchResume(i)
  \/ \E v \in Viewers : Look(v)

Spec == Init /\ [][Next]_vars

\* ------------------------------------ one flip in flight for each player
\* No flip of the player is suspended in watch() or waiting to go on.
noFlipInFlight(playerId) ==
  /\ \A i \in 1 .. Len(listeners) :
       ~(listeners[i].op = "flip" /\ listeners[i].player = playerId)
  /\ \A i \in 1 .. Len(ready) :
       ~(ready[i].op = "flip" /\ ready[i].player = playerId)

\* A player whose previous flip has settled calls flip(playerId, row, col).
FlipCallAlone(playerId, row, col) ==
  /\ noFlipInFlight(playerId)
  /\ FlipCall(playerId, row, col)

NextAlone ==
  \/ \E p \in Players, a \in ArgPos : FlipCallAlone(p, a[1], a[2])
  \/ \E i \in 1 .. MaxCalls : FlipResume(i)
  \/ \E p \in MapCallers, f \in MapFns : MapCall(p, f)
  \/ \E i \in 1 .. MaxCalls : MapResume(i)
  \/ \E p \in Players : WatchCall(p)
  \/ \E i \in 1 .. MaxCalls : WatchResume(i)
  \/ \E v \in Viewers : Look(v)

\* The runs in which every player awaits a flip before calling flip again.
SpecAlone == Init /\ [][NextAlone]_vars

\* ------------------------------------------------------ runs of flips only
\* A player calls flip(playerId, row, col) in a run that only flips.
FlipCallOnly(playerId, row, col) ==
  /\ calls.flip < MaxFlipsOnly
  /\ calls' = [calls EXCEPT !.flip = @ + 1]
  /\ Commit(flip(This, playerId, row, col))

NextFlips ==
  \/ \E p \in Players, a \in ArgPos : FlipCallOnly(p, a[1], a[2])
  \/ \E i \in 1 .. MaxCalls : FlipResume(i)

\* The runs in which the players only flip, which may be longer.
SpecFlips == Init /\ [][NextFlips]_vars

\* --------------------------------------------- a board with a removed pair
\* The board object after construction.
newThis ==
  [board |-> [p \in Pos |-> newCell(InitialCards[p[1] * Width + p[2] + 1])],
   objs |-> [o \in ObjIds |-> newPlayerState],
   playerStates |-> [p \in Players |-> 0],
   listeners |-> <<>>,
   claimLocks |-> [p \in Pos |-> Undef],
   ready |-> <<>>,
   maps |-> <<>>]

\* The board after flip(p1,0,0), flip(p1,1,1), which match, and flip(p1,0,0),
\* whose cleanup removes the pair before the flip fails on the empty cell.
afterMatch ==
  LET s1 == collect(flip(newThis, "p1", 0, 0).s)
      s2 == collect(flip(s1, "p1", 1, 1).s)
  IN collect(flip(s2, "p1", 0, 0).s)

InitAfterMatch ==
  /\ content = InitialFile
  /\ parsed = parseFromFile(content)
  /\ board = afterMatch.board
  /\ objs = afterMatch.objs
  /\ playerStates = afterMatch.playerStates
  /\ listeners = afterMatch.listeners
  /\ claimLocks = afterMatch.claimLocks
  /\ ready = afterMatch.ready
  /\ maps = afterMatch.maps
  /\ calls = [flip |-> 0, map |-> 0, watch |-> 0]

\* The runs that go on from a board that has lost a matched pair.
SpecAfterMatch == InitAfterMatch /\ [][Next]_vars

\* ------------------------------------------------- loading a board file
\* The first lines tried: the dimensions of small boards, and lines that are
\* empty, incomplete, signed, not numbers or padded with white space.
HeaderLines ==
  {<<>>, <<"2", "x", "2">>, <<"1", "x", "2">>, <<"2", "x", "1">>,
   <<"1", "x", "1">>, <<"3", "x", "1">>, <<"4", "x", "1">>, <<"2", "x", "3">>,
   <<"1", "2", "x", "1">>, <<"0", "x", "2">>, <<"-", "1", "x", "2">>,
   <<"x", "2">>, <<"2">>, <<"a", "x", "2">>, <<" ", "2", "x", "2", " ">>}
\* The lines tried after the first: a card, a padded card, a blank line.
CardLines == {<<"A">>, <<"B">>, <<"A", " ">>, <<>>}
Files ==
  {<<h>> \o ls : h \in HeaderLines,
                 ls \in UNION {[1 .. n -> CardLines] : n \in 0 .. MaxLines}}

\* Before parseFromFile() there is no Board object.
InitParse ==
  /\ content \in Files
  /\ parsed = Pending
  /\ board = <<>>
  /\ objs = <<>>
  /\ playerStates = <<>>
  /\ listeners = <<>>
  /\ claimLocks = <<>>
  /\ ready = <<>>
  /\ maps = <<>>
  /\ calls = [flip |-> 0, map |-> 0, watch |-> 0]

\* Board.parseFromFile(filename) reads the file and returns or throws.
ParseFromFile ==
  /\ parsed.kind = "pending"
  /\ parsed' = parseFromFile(content)
  /\ UNCHANGED <<content, board, objs, playerStates, listeners, claimLocks,
                 ready, maps, calls>>

NextParse == ParseFromFile

SpecParse == InitParse /\ [][NextParse]_vars

\* Every assertion of checkRepFunctions() holds whenever a method evaluates it.
RepOk == checkRepFunctions(This)

\* ------------------------------------------------- turn states (spec, 3)
\* The PlayerState of a player that has one.
hasState(p) == playerStates[p] # 0
\* Idle: no card selected.
Idle(p) ==
  \/ ~hasState(p)
  \/ stateOf(This, p).firstCard = NoCard /\ stateOf(This, p).secondCard = NoCard
\* HoldingFirst(x)
HoldingFirst(p, x) ==
  /\ hasState(p)
  /\ stateOf(This, p).firstCard = x
  /\ stateOf(This, p).secondCard = NoCard
\* HoldingPair(a, b, matched); b = noneCard is the spec's None.
HoldingPair(p, a, b, matched) ==
  /\ hasState(p)
  /\ stateOf(This, p).firstCard = a
  /\ stateOf(This, p).secondCard = b
  /\ stateOf(This, p).hasMatch = matched

\* The line of a cell in a snapshot.
lineOf(snapshot, x) == snapshot[x[1] * Width + x[2] + 2]
hasCard(x) == Len(board[x].card) > 0
noClaims == \A x \in Pos : claimLocks[x] = Undef
\* A segment woke every waiter that was registered when it began.
wokeAll == listeners' = <<>> /\ Len(ready') = Len(ready) + Len(listeners)

\* ------------------------------------------------------------------- C1
\* C1 (part): in no state are two distinct players both HoldingFirst on the
\* same cell.
C1_Inv ==
  \A p \in Players, q \in Players, x \in Pos :
    p # q => ~(HoldingFirst(p, x) /\ HoldingFirst(q, x))

\* C1 (part): a first flip by an Idle player on a card-bearing cell nobody
\* controls returns at once with the cell face-up and controlled by the
\* caller; on a cell another player controls it suspends or fails and leaves
\* the controller as it is.
C1_Step ==
  \A p \in Players, x \in Pos :
    (Idle(p) /\ hasCard(x) /\ FlipCall(p, x[1], x[2])) =>
      /\ board[x].controller = Undef =>
           /\ flip(This, p, x[1], x[2]).kind = "return"
           /\ board'[x].faceUp
           /\ board'[x].controller = p
      /\ board[x].controller \notin {Undef, p} =>
           /\ flip(This, p, x[1], x[2]).kind \in {"suspend", "throw"}
           /\ board'[x].controller = board[x].controller

\* C1: of two different Idle players racing a first flip on the same
\* uncontrolled card-bearing cell exactly one returns without suspending,
\* holding the cell; the other suspends or fails without taking control; and
\* never are two distinct players both HoldingFirst on the same cell.
C1 == []C1_Inv /\ [][C1_Step]_vars

\* C1 witness: after the race one player holds the cell as its first card and
\* the other player's first flip on that cell is suspended.
C1_Witness ==
  \E p \in Players, q \in Players, x \in Pos :
    /\ p # q
    /\ calls.flip = 2
    /\ HoldingFirst(p, x)
    /\ board[x].controller = p
    /\ Len(listeners) = 1
    /\ listeners[1].op = "flip" /\ listeners[1].player = q /\ listeners[1].pos = x

\* ------------------------------------------------------------------- C2
\* C2: while a map is in progress, two cells that held equal non-empty labels
\* when it started hold equal labels in every state another call can observe.
C2 ==
  \A i \in 1 .. Len(maps) :
    \A j \in 1 .. (Height * Width), k \in 1 .. (Height * Width) :
      (maps[i].start[j] = maps[i].start[k] /\ Len(maps[i].start[j]) > 0) =>
        board[posOf(j - 1)].card = board[posOf(k - 1)].card

\* ------------------------------------------------------------------- C3
\* The number of cells that carry a label.
countOf(label) == Cardinality({x \in Pos : board[x].card = label})

\* C3: once two interleaved map calls have both returned, cells that held
\* equal labels before either started hold equal labels, and every label on
\* the board occurs an even number of times.
C3 ==
  (calls.map = 2 /\ Len(maps) = 0) =>
    /\ \A j \in 1 .. (Height * Width), k \in 1 .. (Height * Width) :
         (InitialCards[j] = InitialCards[k] /\ hasCard(posOf(j - 1)) /\ hasCard(posOf(k - 1))) =>
           board[posOf(j - 1)].card = board[posOf(k - 1)].card
    /\ \A x \in Pos : hasCard(x) => countOf(board[x].card) % 2 = 0

\* ------------------------------------------------------------------- C4
\* The line the snapshot protocol prescribes for a cell.
protocolLine(cell, v) ==
  IF Len(cell.card) = 0 THEN "none"
  ELSE IF ~cell.faceUp THEN "down"
  ELSE IF cell.controller = v THEN "my " \o cell.card
  ELSE "up " \o cell.card

\* C4: look(v) is the header "{height}x{width}" followed by one line per cell
\* in row-major order: none, my {card}, up {card}, or down for a face-down card.
C4 ==
  \A v \in Viewers :
    /\ Len(look(This, v)) = Height * Width + 1
    /\ look(This, v)[1] = ToString(Height) \o "x" \o ToString(Width)
    /\ \A x \in Pos : lineOf(look(This, v), x) = protocolLine(board[x], v)

\* ------------------------------------------------------------------- C5
\* C5: on the board just built, before any flip, every cell is face-down and
\* uncontrolled and look(v) is the header followed by H*W lines "down".
C5 ==
  (calls.flip = 0 /\ calls.map = 0) =>
    /\ \A x \in Pos : ~board[x].faceUp /\ board[x].controller = Undef
    /\ \A v \in Viewers :
         look(This, v) =
           [i \in 1 .. (Height * Width + 1) |->
              IF i = 1 THEN ToString(Height) \o "x" \o ToString(Width) ELSE "down"]

\* ------------------------------------------------------------------- C6
\* Labels a face-down card could carry instead of its own.
OtherLabels == {"A", "B"}

\* C6: a snapshot does not depend on the label of a face-down card: giving a
\* face-down card any other label leaves every viewer's snapshot as it is.
C6 ==
  \A v \in Viewers, x \in Pos, l \in OtherLabels :
    (hasCard(x) /\ ~board[x].faceUp) =>
      look([This EXCEPT !.board[x].card = l], v) = look(This, v)

\* ------------------------------------------------------------------- C7
\* C7: a flip by an Idle player on an in-bounds, card-bearing cell that is
\* face-down or uncontrolled returns without suspending; afterwards the cell
\* is face-up and controlled by the player, the player is HoldingFirst on it,
\* every waiter registered before the call has been woken, no claim remains,
\* and the returned snapshot shows the cell as "my {card}".
C7_Step ==
  \A p \in Players, x \in Pos :
    (/\ Idle(p)
     /\ hasCard(x)
     /\ (~board[x].faceUp \/ board[x].controller = Undef)
     /\ FlipCall(p, x[1], x[2])) =>
      /\ flip(This, p, x[1], x[2]).kind = "return"
      /\ board'[x].faceUp
      /\ board'[x].controller = p
      /\ HoldingFirst(p, x)'
      /\ wokeAll
      /\ noClaims'
      /\ lineOf(flip(This, p, x[1], x[2]).value, x) = "my " \o board[x].card

C7 == [][C7_Step]_vars

\* C7 witness: the first flip of a run has taken its card and woken the
\* watcher that was registered before it.
C7_Witness ==
  \E p \in Players, x \in Pos :
    /\ calls = [flip |-> 1, map |-> 0, watch |-> 1]
    /\ HoldingFirst(p, x)
    /\ board[x].controller = p
    /\ listeners = <<>>
    /\ Len(ready) = 1

\* ------------------------------------------------------------------- C8
\* The second flip of p, holding `first', on a cell x with the same label.
C8_Match(p, first, x) ==
  /\ board'[x].faceUp
  /\ board'[x].controller = p
  /\ board'[first].faceUp
  /\ board'[first].controller = p
  /\ lineOf(flip(This, p, x[1], x[2]).value, x) = "my " \o board[x].card
  /\ lineOf(flip(This, p, x[1], x[2]).value, first) = "my " \o board[first].card
  /\ HoldingPair(p, first, x, TRUE)'

\* Both cells of a matched pair are gone, for every viewer.
C8_Removed(a, b) ==
  /\ ~hasCard(a)
  /\ ~hasCard(b)
  /\ \A v \in Viewers :
       lineOf(look(This, v), a) = "none" /\ lineOf(look(This, v), b) = "none"

visible(x) == hasCard(x) /\ board[x].faceUp

\* The second flip of p, holding `first', on a cell x with another label.
C9_Mismatch(p, first, x) ==
  /\ visible(first)' /\ board'[first].controller = Undef
  /\ visible(x)' /\ board'[x].controller = Undef
  /\ \A v \in Viewers :
       /\ lineOf(look(This, v), first)' = "up " \o board[first].card
       /\ lineOf(look(This, v), x)' = "up " \o board[x].card
  /\ HoldingPair(p, first, x, FALSE)'

C9_Flip ==
  \A p \in Players, first \in Pos, x \in Pos :
    (/\ HoldingFirst(p, first)
     /\ hasCard(x)
     /\ board[x].controller = Undef
     /\ board[x].card # board[first].card
     /\ FlipCall(p, x[1], x[2])) => C9_Mismatch(p, first, x)

\* Another player has matched cell c and removes it in this step.
C9_RemovedByMatch(p, c) ==
  /\ ~hasCard(c)'
  /\ \E q \in Players \ {p} :
       /\ hasState(q)
       /\ stateOf(This, q).hasMatch
       /\ c \in {stateOf(This, q).firstCard, stateOf(This, q).secondCard}

C10_Failed(p, first, x) ==
  /\ flip(This, p, x[1], x[2]).kind = "throw"
  /\ flip(This, p, x[1], x[2]).value = <<"card is controlled by another player">>
  /\ board'[first].controller = Undef
  /\ board'[first].faceUp
  /\ HoldingPair(p, first, noneCard, FALSE)'
  /\ wokeAll

C10_Pre(p, first, x) ==
  /\ HoldingFirst(p, first)
  /\ board[x].faceUp
  /\ board[x].controller # Undef
  /\ FlipCall(p, x[1], x[2])

\* C10 as stated: a flip in HoldingFirst on a cell that is face-up and
\* controlled by any player fails with "card is controlled by another player"
\* without suspending; the first card loses its controller and stays face-up,
\* the state becomes HoldingPair(first, None, unmatched), the target cell is
\* unchanged, and all registered waiters are woken.
C10_Stated ==
  [][ \A p \in Players, first \in Pos, x \in Pos :
        C10_Pre(p, first, x) =>
          (C10_Failed(p, first, x) /\ board'[x] = board[x]) ]_vars

\* C10 amended: ... the target cell is unchanged unless it is the player's own
\* first card, which loses its controller.
C10 ==
  [][ \A p \in Players, first \in Pos, x \in Pos :
        C10_Pre(p, first, x) =>
          (C10_Failed(p, first, x) /\ (x # first => board'[x] = board[x])) ]_vars

\* C10 witness: a player's second flip on a card another player controls has
\* failed, and the flip that was waiting has been woken.
C10_Witness ==
  \E p \in Players, q \in Players, first \in Pos, x \in Pos :
    /\ p # q
    /\ calls = [flip |-> 4, map |-> 0, watch |-> 0]
    /\ HoldingPair(p, first, noneCard, FALSE)
    /\ board[first].faceUp /\ board[first].controller = Undef
    /\ HoldingFirst(q, x) /\ board[x].controller = q
    /\ listeners = <<>>
    /\ Len(ready) = 1
    /\ ready[1].op = "flip" /\ ready[1].pos = x

\* ------------------------------------------------------------------ C11
\* C11: a flip on an in-bounds cell that holds no card fails with "invalid
\* card position" without suspending; if the caller was HoldingFirst, the
\* first card loses its controller and stays face-up, the state becomes
\* HoldingPair(first, None, unmatched) and every registered waiter is woken.
C11_Step ==
  \A p \in Players, x \in Pos :
    (~hasCard(x) /\ FlipCall(p, x[1], x[2])) =>
      /\ flip(This, p, x[1], x[2]).kind = "throw"
      /\ flip(This, p, x[1], x[2]).value = <<"invalid card position">>
      /\ \A first \in Pos :
           HoldingFirst(p, first) =>
             /\ board'[first].controller = Undef
             /\ board'[first].faceUp
             /\ HoldingPair(p, first, noneCard, FALSE)'
             /\ wokeAll

C11 == [][C11_Step]_vars

\* C11 witness: cards have been removed, and a player that held a first card
\* has given it up while every other card on the board is uncontrolled.
C11_Witness ==
  \E p \in Players, first \in Pos, x \in Pos :
    /\ calls = [flip |-> 5, map |-> 0, watch |-> 0]
    /\ ~hasCard(x)
    /\ HoldingPair(p, first, noneCard, FALSE)
    /\ hasCard(first) /\ board[first].faceUp
    /\ \A y \in Pos : board[y].controller = Undef
    /\ \A q \in Players : q # p => Idle(q)

\* ------------------------------------------------------------------ C12
\* The turn state of a player: a player without a PlayerState is as one with
\* an empty PlayerState.
turnOf(q) == IF hasState(q) THEN stateOf(This, q) ELSE newPlayerState
\* A suspended call without the identity of its PlayerState object.
waiterOf(k) == [k EXCEPT !.state = 0]

\* C12: a flip whose row or column is out of range fails with "invalid card
\* position" and changes no cell, no player's turn state and no claim, and
\* wakes no waiter; a pending pair or a held first card stays as it was.
C12_Step ==
  \A p \in Players, x \in ArgPos \ Pos :
    FlipCall(p, x[1], x[2]) =>
      /\ flip(This, p, x[1], x[2]).kind = "throw"
      /\ flip(This, p, x[1], x[2]).value = <<"invalid card position">>
      /\ board' = board
      /\ claimLocks' = claimLocks
      /\ \A q \in Players : turnOf(q)' = turnOf(q)
      /\ Len(listeners') = Len(listeners)
      /\ \A i \in 1 .. Len(listeners) :
           waiterOf(listeners'[i]) = waiterOf(listeners[i])
      /\ Len(ready') = Len(ready)

C12 == [][C12_Step]_vars

\* C12 witness: the only player that has called flip made a match and then
\* an out-of-range flip; the matched pair is still on the board.
C12_Witness ==
  \E p \in Players, a \in Pos, b \in Pos :
    /\ calls = [flip |-> 3, map |-> 0, watch |-> 0]
    /\ \A q \in Players : q # p => ~hasState(q)
    /\ HoldingPair(p, a, b, TRUE)
    /\ hasCard(a) /\ board[a].controller = p
    /\ hasCard(b) /\ board[b].controller = p

\* ------------------------------------------------------------------ C13
\* A cell that keeps its card loses its controller in this step.
relinquished(x) ==
  /\ board[x].controller # Undef
  /\ board'[x].controller = Undef
  /\ hasCard(x)'

\* C13 (part): a step in which a player relinquishes a cell wakes the first
\* flips suspended on it, with every other waiter.
C13_Woken ==
  \A x \in Pos : relinquished(x) => wokeAll

\* C13 (part): a woken first flip whose cell still holds its card and is not
\* controlled by another player returns with the cell face-up and controlled
\* by its player.
C13_Resumed ==
  \A i \in 1 .. Len(ready) :
    (/\ ready[i].op = "flip"
     /\ hasCard(ready[i].pos)
     /\ board[ready[i].pos].controller \in {Undef, ready[i].player}
     /\ FlipResume(i)) =>
      /\ flipResume(This, i).kind = "return"
      /\ board'[ready[i].pos].faceUp
      /\ board'[ready[i].pos].controller = ready[i].player
      /\ lineOf(flipResume(This, i).value, ready[i].pos)
           = "my " \o board[ready[i].pos].card

\* C13: a first flip suspended on a cell another player controls is woken
\* when that player relinquishes the cell, and then, unless another player
\* has taken the cell, returns with the cell face-up and controlled by the
\* formerly suspended player.
C13 == [][C13_Woken /\ C13_Resumed]_vars

\* C13 witness: the controller of a cell has made a non-matching second flip
\* and the first flip that was suspended on the cell has been woken.
C13_Witness ==
  \E p \in Players, q \in Players, x \in Pos, y \in Pos :
    /\ p # q
    /\ HoldingPair(q, x, y, FALSE)
    /\ y \in Pos
    /\ board[x].faceUp /\ board[x].controller = Undef
    /\ listeners = <<>>
    /\ Len(ready) = 1
    /\ ready[1].op = "flip" /\ ready[1].player = p /\ ready[1].pos = x

\* ------------------------------------------------------------------ C14
\* A first flip is suspended in watch().
suspendedFlip == \E i \in 1 .. Len(listeners) : listeners[i].op = "flip"
\* Something is bound to happen: a continuation is waiting to run, or a player
\* controls a card (and so is to call flip again).
pending ==
  \/ ready # <<>>
  \/ maps # <<>>
  \/ \E x \in Pos : board[x].controller # Undef

\* C14: no first flip is suspended forever: while a first flip is suspended,
\* the run cannot come to rest, that is, a continuation is waiting to run or
\* some player controls a card and will call flip again.
C14 == suspendedFlip => pending

\* ------------------------------------------------------------------ C15
\* C15 (part): no first flip stays suspended on a cell that no longer holds a
\* card: the segment that removes the card wakes it.
C15_Inv ==
  \A i \in 1 .. Len(listeners) :
    listeners[i].op = "flip" => hasCard(listeners[i].pos)

\* C15 (part): a woken first flip whose cell has become card-less fails with
\* "card was removed while waiting" and leaves the cell as it is.
C15_Step ==
  \A i \in 1 .. Len(ready) :
    (ready[i].op = "flip" /\ ~hasCard(ready[i].pos) /\ FlipResume(i)) =>
      /\ flipResume(This, i).kind = "throw"
      /\ flipResume(This, i).value = <<"card was removed while waiting">>
      /\ board' = board

\* C15: when the target cell of a suspended first flip becomes card-less, the
\* removal wakes the flip, which then fails with "card was removed while
\* waiting"; it neither takes the empty cell nor stays suspended on it.
C15 == []C15_Inv /\ [][C15_Step]_vars

\* ------------------------------------------------------------------ C16
\* The step is the continuation of a call that was waiting in `ready'.
fromReady == calls' = calls /\ maps' = maps /\ vars' # vars
\* The step resolved every waiter that was registered when it began.
wokeRegistered ==
  Len(ready') = Len(ready) + Len(listeners) - (IF fromReady THEN 1 ELSE 0)

\* C16: a segment of flip or map that changes a cell (label, face-up flag,
\* controller, removal) wakes, before it suspends, returns or fails, every
\* waiter registered at that moment; so do the removals and face-down turns
\* of the lazy cleanup.
C16 == [][board' # board => wokeRegistered]_vars

\* ------------------------------------------------------------------ C17
\* A watch is registered and no other call is in progress.
watchPending ==
  /\ listeners # <<>>
  /\ \A i \in 1 .. Len(listeners) : listeners[i].op = "watch"
  /\ ready = <<>>
  /\ maps = <<>>

\* C17: a watch registered while nothing is in progress stays unresolved
\* until a flip or map call succeeds: neither a look, nor another watch, nor
\* a flip call that fails fulfills it.
C17 ==
  [][ watchPending =>
        /\ \A v \in Players : WatchCall(v) => ready' = <<>>
        /\ \A p \in Players, x \in ArgPos :
             (FlipCall(p, x[1], x[2]) /\ flip(This, p, x[1], x[2]).kind = "throw")
               => ready' = <<>> ]_vars

\* ------------------------------------------------------------------ C18
\* The i-th waiter is fulfilled by this step.
fulfilled(i) ==
  ~(i <= Len(listeners') /\ waiterOf(listeners'[i]) = waiterOf(listeners[i]))

\* C18: whenever a watch is fulfilled, some card has turned face-up or
\* face-down, has been removed or has changed its label since the watch was
\* registered.
C18 ==
  [][ \A i \in 1 .. Len(listeners) :
        (listeners[i].op = "watch" /\ fulfilled(i)) =>
          listeners[i].start # shownOf(This)' ]_vars

\* ------------------------------------------------------------------ C19
\* The boards a segment can publish: the one it ends with, or, for a flip
\* call, the one its lazy cleanup leaves.
publishedBoards ==
  {board'} \cup {cleanupPreviousMove(This, p).board : p \in {q \in Players : hasState(q)}}

\* The number of waiters this step resolved.
woken == Len(ready') + (IF fromReady THEN 1 ELSE 0) - Len(ready)

\* The entry of ready' that the i-th waiter of this step was resolved to.
resolvedAs(i) == ready'[Len(ready') - Len(listeners) + i]

\* C19: one publish removes every registered waiter and fulfills each exactly
\* once, each with the snapshot for its own viewer, all taken from the same
\* board, the one right after the mutation that triggered the publish; a
\* waiter registered after the publish is not fulfilled by it.
C19_Step ==
  woken > 0 =>
    /\ woken = Len(listeners)
    /\ Len(listeners') <= 1
    /\ \A i \in 1 .. Len(listeners') : listeners'[i].result = <<>>
    /\ \E b \in publishedBoards :
         \A i \in 1 .. Len(listeners) :
           /\ waiterOf([resolvedAs(i) EXCEPT !.result = <<>>]) = waiterOf(listeners[i])
           /\ listeners[i].op = "watch" =>
                resolvedAs(i).result = look([This EXCEPT !.board = b], listeners[i].player)

restOf(cell) == [faceUp |-> cell.faceUp, controller |-> cell.controller,
                 present |-> Len(cell.card) > 0]
\* The labels f has been evaluated on.
keysOf(repl) == {e[1] : e \in repl}
\* The i-th suspended map returns in this step, and no call was made while it
\* was in progress.
returnsAlone(i) ==
  /\ MapResume(i)
  /\ mapResume([This EXCEPT !.maps = Without(maps, i)], maps[i]).kind = "return"
  /\ maps[i].since >= 0
  /\ total = maps[i].since + 1

\* C20 (part): no segment of a map changes a face-up flag, a controller, the
\* presence of a card, a turn state or a claim.
C20_Frame ==
  ((\E p \in MapCallers, f \in MapFns : MapCall(p, f))
     \/ (\E i \in 1 .. Len(maps) : MapResume(i))) =>
    /\ \A x \in Pos : restOf(board'[x]) = restOf(board[x])
    /\ \A q \in Players : turnOf(q)' = turnOf(q)
    /\ claimLocks' = claimLocks

\* C20 (part): a map that ran with no other call interleaved has evaluated f
\* once on each distinct label, leaves every card-bearing cell with f of the
\* label it had at the start, wakes all waiters and returns the caller's
\* snapshot.
C20_Return ==
  \A i \in 1 .. Len(maps) :
    returnsAlone(i) =>
      /\ maps[i].key \notin keysOf(maps[i].repl)
      /\ keysOf(maps[i].repl) \cup {maps[i].key}
           = {maps[i].start[k] : k \in 1 .. (Height * Width)} \ {""}
      /\ \A k \in 1 .. (Height * Width) :
           board'[posOf(k - 1)].card =
             IF maps[i].start[k] = "" THEN "" ELSE applyF(maps[i].f, maps[i].start[k])
      /\ woken = Len(listeners) /\ listeners' = <<>>
      /\ mapResume([This EXCEPT !.maps = Without(maps, i)], maps[i]).value
           = look([This EXCEPT !.board = board'], maps[i].player)

\* C20: a map(f) that runs with no other operation interleaved replaces the
\* label of every card-bearing cell by f of its label at the start of the
\* call, evaluating f once per distinct label, leaves everything else as it
\* is, wakes all waiters and returns the caller's snapshot.
C20 == [][C20_Frame /\ C20_Return]_vars

\* C20 witness: after a flip and a watch, a map has relabelled every card, kept
\* the face-up card controlled, and woken the watcher with the new labels.
C20_Witness ==
  \E f \in MapFns, x \in Pos :
    /\ calls = [flip |-> 1, map |-> 1, watch |-> 1]
    /\ maps = <<>>
    /\ listeners = <<>>
    /\ \A k \in 1 .. (Height * Width) :
         board[posOf(k - 1)].card = applyF(f, InitialCards[k])
    /\ board[x].faceUp /\ board[x].controller \in Players
    /\ Len(ready) = 1
    /\ ready[1].op = "watch"
    /\ ready[1].result = look(This, ready[1].player)

\* ------------------------------------------------------------------ C21
\* The first line, the dimensions it gives and the card tokens that follow.
headerOf(c) == trim(linesOf(c)[1])
isNumber(l) == l # <<>> /\ \A i \in 1 .. Len(l) : isDigit(l[i])
\* The first line is empty or reads {H}x{W} with two numbers.
WellFormed(c) ==
  \/ headerOf(c) = <<>>
  \/ /\ Len(split(headerOf(c), "x")) = 2
     /\ \A i \in 1 .. 2 : isNumber(split(headerOf(c), "x")[i])
heightOf(c) == parseInt(split(headerOf(c), "x")[1])
widthOf(c) == parseInt(split(headerOf(c), "x")[2])
tokensOf(c) ==
  LET ls == linesOf(c)
      trimmed == [i \in 1 .. (Len(ls) - 1) |-> strOf(trim(ls[i + 1]))]
  IN SelectSeq(trimmed, LAMBDA l : l # "")
positive(c) == headerOf(c) # <<>> /\ heightOf(c) > 0 /\ widthOf(c) > 0
valid(c) ==
  /\ positive(c)
  /\ (heightOf(c) * widthOf(c)) % 2 = 0
  /\ Len(tokensOf(c)) = heightOf(c) * widthOf(c)
  /\ oddCards(tokensOf(c)) = {}
\* The errors of the conditions the file violates.
causes(c) ==
  LET n == heightOf(c) * widthOf(c)
      tokens == tokensOf(c)
  IN IF headerOf(c) = <<>> THEN {"empty board file"}
     ELSE (IF n % 2 # 0 THEN {"total number of cards must be even"} ELSE {})
          \cup (IF Len(tokens) # n
                THEN {"expected " \o numStr(n) \o " cards ("
                        \o numStr(heightOf(c)) \o "x" \o numStr(widthOf(c))
                        \o "), but got " \o numStr(Len(tokens)) \o " cards"}
                ELSE {})
          \cup {"card \"" \o tokens[i] \o "\" appears "
                  \o numStr(cardCount(tokens, tokens[i]))
                  \o " times, which is not a multiple of 2" :
                  i \in oddCards(tokens)}

\* C21: parsing a well-formed file succeeds exactly when H > 0, W > 0, H*W is
\* even, there are H*W card tokens and every token occurs an even number of
\* times; otherwise it fails with the error of a violated condition.
C21 ==
  (parsed.kind # "pending" /\ WellFormed(content)) =>
    /\ (parsed.kind = "return") <=> valid(content)
    /\ (parsed.kind = "throw" /\ (headerOf(content) = <<>> \/ positive(content)))
         => parsed.value \in causes(content)

\* ------------------------------------------------------------------ C22
\* What the call flip(p, row, col) made in this step gives its caller.
flipGave(p, row, col) == flip(This, p, row, col).value
\* Only p1 has called, and only flip, n times.
soloFlips(n) == calls = [flip |-> n, map |-> 0, watch |-> 0] /\ ~hasState("p2")

\* C22 (part): on the new board flip(p1,0,0) returns 2x2, my A, down, down, down.
C22_First ==
  (soloFlips(0) /\ FlipCall("p1", 0, 0)) =>
    flipGave("p1", 0, 0) = <<"2x2", "my A", "down", "down", "down">>
\* C22 (part): then flip(p1,0,1) returns up A, up B, down, down.
C22_Second ==
  (soloFlips(1) /\ HoldingFirst("p1", <<0, 0>>) /\ FlipCall("p1", 0, 1)) =>
    flipGave("p1", 0, 1) = <<"2x2", "up A", "up B", "down", "down">>
\* C22 (part): then flip(p1,1,1) turns (0,0) and (0,1) face-down and takes
\* (1,1) as the first card of p1.
C22_Third ==
  (soloFlips(2) /\ HoldingPair("p1", <<0, 0>>, <<0, 1>>, FALSE)
     /\ FlipCall("p1", 1, 1)) =>
    /\ ~board'[<<0, 0>>].faceUp /\ ~board'[<<0, 1>>].faceUp
    /\ board'[<<1, 1>>].faceUp /\ board'[<<1, 1>>].controller = "p1"
    /\ HoldingFirst("p1", <<1, 1>>)'

\* C22: on the 2x2 board A, B, B, A with the single player p1, flip(p1,0,0)
\* returns 2x2 and my A, down, down, down; then flip(p1,0,1) returns up A,
\* up B, down, down; then flip(p1,1,1) turns (0,0) and (0,1) face-down by
\* cleanup and takes (1,1) as the first card of p1.
C22 == [][C22_First /\ C22_Second /\ C22_Third]_vars

\* ------------------------------------------------------------------ C23
\* C23: look(v) never suspends, never fails and changes nothing: whatever
\* flip, map and watch calls are in progress, it returns and leaves every
\* cell, every player's turn state, the claims and the waiters as they are.
C23 ==
  \A v \in Viewers :
    /\ lookCall(This, v).kind = "return"
    /\ lookCall(This, v).s = This

\* C23 witness: a flip is suspended on a controlled card and a map is awaiting
\* f, and looking has left both in place.
C23_Witness ==
  /\ \E i \in 1 .. Len(listeners) : listeners[i].op = "flip"
  /\ maps # <<>>
  /\ \E x \in Pos : board[x].controller \in Players
  /\ \A v \in Viewers : lookCall(This, v).value = look(This, v)

\* ------------------------------------------------------------------ C24
\* C24 (part): a controlled cell is face-up, and a card-less cell is
\* face-down and has no controller.
C24_Cells ==
  \A x \in Pos :
    /\ board[x].controller # Undef => board[x].faceUp
    /\ ~hasCard(x) => ~board[x].faceUp /\ board[x].controller = Undef

\* C24 (part): the assertions of checkRepFunctions hold of the fields as
\* every segment of look, flip, map and watch leaves them, which is where
\* these methods evaluate them.
C24_Asserts ==
  /\ checkRepFunctions(This)
  /\ \A v \in Viewers : lookCall(This, v).kind = "return"

\* C24: in every reachable state a controlled cell is face-up and a card-less
\* cell is face-down and uncontrolled, so no assertion of checkRepFunctions
\* fails in look, flip, map or watch.
C24 == C24_Cells /\ C24_Asserts

\* C24 witness: a pair has been removed while another card is controlled and
\* a flip waits for it.
C24_Witness ==
  /\ \E x \in Pos : ~hasCard(x)
  /\ \E x \in Pos : board[x].controller \in Players
  /\ listeners # <<>>

\* ------------------------------------------------------------------ C25
\* The tracked state of a player other than p names the cell c as its first
\* or second card.
namedByOther(p, c) ==
  \E q \in Players \ {p} :
    hasState(q) /\ (turnOf(q).firstCard = c \/ turnOf(q).secondCard = c)
\* The cleanup of p turns the cell c face-down.
turnsDown(p, c) ==
  /\ hasCard(c) /\ board[c].faceUp /\ board[c].controller = Undef
  /\ ~namedByOther(p, c)

\* C25: at the start of an in-bounds flip by a player in
\* HoldingPair(a, b, matched = false), each of a and b that holds a card, is
\* face-up and uncontrolled is turned face-down unless another player's
\* tracked state names it, and then it stays face-up; with b = None only a
\* is considered; controlled and card-less cells are left as they are; and
\* the player's state becomes Idle (the flip goes on from Idle with its
\* target x).
C25_Step ==
  \A p \in Players :
    (hasState(p) /\ ~turnOf(p).hasMatch /\ turnOf(p).firstCard # NoCard
       /\ turnOf(p).secondCard # NoCard) =>
      \A x \in Pos :
        FlipCall(p, x[1], x[2]) =>
          LET a == turnOf(p).firstCard
              b == turnOf(p).secondCard
              own == IF b = noneCard THEN {a} ELSE {a, b}
          IN /\ \A c \in own \ {x} :
                  board'[c] = IF turnsDown(p, c)
                              THEN [board[c] EXCEPT !.faceUp = FALSE]
                              ELSE board[c]
             /\ \A c \in own \cap {x} :
                  \/ board'[c].faceUp /\ board'[c].controller = p
                  \/ board'[c] = IF turnsDown(p, c)
                                 THEN [board[c] EXCEPT !.faceUp = FALSE]
                                 ELSE board[c]
             /\ \A c \in Pos \ (own \cup {x}) : board'[c] = board[c]
             /\ Idle(p)' \/ HoldingFirst(p, x)'
C25 == [][C25_Step]_vars

\* C25 witness: p1 mismatched (0,0) and (0,1), p2 then mismatched (0,0) and
\* (1,0), and the next flip of p1 has left (0,0), which the state of p2
\* names, face-up and turned (0,1) face-down.
C25_Witness ==
  /\ calls.flip = 5
  /\ HoldingFirst("p1", <<1, 1>>)
  /\ HoldingPair("p2", <<0, 0>>, <<1, 0>>, FALSE)
  /\ board[<<0, 0>>].faceUp /\ board[<<0, 0>>].controller = Undef
  /\ ~board[<<0, 1>>].faceUp
  /\ board[<<1, 0>>].faceUp

\* ------------------------------------------------------------------ C26
\* A flip call of p ends in this step: it returns or fails.
flipEnds(p) ==
  \/ \E x \in ArgPos :
       /\ FlipCall(p, x[1], x[2])
       /\ flip(This, p, x[1], x[2]).kind \in {"return", "throw"}
  \/ \E i \in 1 .. Len(ready) :
       /\ ready[i].op = "flip" /\ ready[i].player = p
       /\ FlipResume(i)
       /\ flipResume(This, i).kind \in {"return", "throw"}

\* C26: a first flip that acquires the claim on a cell releases it before the
\* flip returns or fails, so when a flip call has ended no claim of its
\* caller remains.
C26 ==
  [][\A p \in Players :
       (\E c \in Pos : claimLocks'[c] = p) => ~flipEnds(p)]_vars

\* C26 witness: a first flip has gone through the claim and taken its card
\* while an earlier taker holds a card too, and no claim is left.
C26_Witness ==
  \E x, y \in Pos :
    /\ HoldingFirst("p1", x) /\ board[x].controller = "p1"
    /\ HoldingFirst("p2", y) /\ board[y].controller = "p2"
    /\ noClaims

\* ------------------------------------------------------------------ C27
\* C27: no flip suspends while it holds a claim: whenever a flip or a watch
\* is suspended, the claim map is empty.
C27 == (listeners # <<>> \/ ready # <<>>) => noClaims

\* C27 witness: a flip is suspended on a card that another player took
\* through the claim, a woken call is still to resume, and no claim is held.
C27_Witness ==
  /\ \E i \in 1 .. Len(listeners) :
       /\ listeners[i].op = "flip"
       /\ board[listeners[i].pos].controller \in Players \ {listeners[i].player}
  /\ ready # <<>>
  /\ noClaims

\* ------------------------------------------------------------------ C28
\* C28: a flip by a player in HoldingFirst never suspends: whatever the
\* target, it returns a snapshot or fails, and registers no waiter.
C28_Step ==
  \A p \in Players :
    (hasState(p) /\ turnOf(p).firstCard # NoCard /\ turnOf(p).secondCard = NoCard) =>
      \A x \in ArgPos :
        FlipCall(p, x[1], x[2]) =>
          /\ flip(This, p, x[1], x[2]).kind \in {"return", "throw"}
          /\ flip(This, p, x[1], x[2]).kind = "return" =>
               flipGave(p, x[1], x[2]) = look([This EXCEPT !.board = board'], p)
          /\ Len(listeners') <= Len(listeners)
C28 == [][C28_Step]_vars

\* C28 witness: p1 holding a first card has flipped a card that p2 controls:
\* the flip has failed, p1 has given up its card and waits for nothing.
C28_Witness ==
  \E a, x \in Pos :
    /\ HoldingPair("p1", a, noneCard, FALSE)
    /\ HoldingFirst("p2", x) /\ board[x].controller = "p2"
    /\ board[a].faceUp /\ board[a].controller = Undef
    /\ listeners = <<>> /\ ready = <<>>
    /\ calls.flip = 3

\* ------------------------------------------------------------------ C29
\* The turn state a PlayerState stands for.
turnKind(t) ==
  IF t.firstCard = NoCard /\ t.secondCard = NoCard THEN "Idle"
  ELSE IF t.firstCard # NoCard /\ t.secondCard = NoCard THEN "HoldingFirst"
  ELSE IF t.firstCard # NoCard THEN "HoldingPair"
  ELSE "none"
\* This step is a segment of a flip of p with target x.
flipsAt(p, x) ==
  \/ FlipCall(p, x[1], x[2])
  \/ \E i \in 1 .. Len(ready) :
       ready[i].op = "flip" /\ ready[i].player = p /\ ready[i].pos = x
         /\ FlipResume(i)
\* The turn state of p goes from t to u along the cycle, by a flip at x.
along(t, u, x) ==
  \/ /\ turnKind(t) \in {"Idle", "HoldingPair"}
     /\ turnKind(u) = "HoldingFirst" /\ u.firstCard = x /\ ~u.hasMatch
  \/ /\ turnKind(t) = "HoldingFirst"
     /\ turnKind(u) = "HoldingPair" /\ u.firstCard = t.firstCard
     /\ u.secondCard \in {x, noneCard}
  \/ /\ turnKind(t) = "HoldingPair"
     /\ u = newPlayerState

\* C29 (part): every player starts Idle.
C29_Start == (calls.flip = 0) => \A p \in Players : Idle(p)
\* C29 (part): a player's turn state changes only by a flip of that player
\* within the board, and only from Idle to HoldingFirst, from HoldingFirst to
\* HoldingPair, and from HoldingPair to Idle (from where the same flip may go
\* on to HoldingFirst).
C29_Step ==
  \A p \in Players :
    turnOf(p)' # turnOf(p) =>
      \E x \in Pos : flipsAt(p, x) /\ along(turnOf(p), turnOf(p)', x)

\* C29: turn states change only along Idle -> HoldingFirst -> HoldingPair ->
\* Idle, by the player's own flips; look, map, watch and the calls of other
\* players never change them.
C29 == []C29_Start /\ [][C29_Step]_vars

\* ------------------------------------------------------------------ C30
\* C30 (part): the first position in the state of a player about to make a
\* second flip is inside the board and holds a card that player controls.
C30_First ==
  \A p \in Players :
    (hasState(p) /\ turnKind(turnOf(p)) = "HoldingFirst") =>
      /\ turnOf(p).firstCard \in Pos
      /\ hasCard(turnOf(p).firstCard)
      /\ board[turnOf(p).firstCard].controller = p
\* C30 (part): no flip of a player whose state has a first card fails with
\* "first card no longer exists".
C30_Never ==
  \A p \in Players :
    (hasState(p) /\ turnOf(p).firstCard # NoCard) =>
      \A x \in Pos :
        flip(This, p, x[1], x[2]).value # <<"first card no longer exists">>

recorded(p, x) ==
  /\ hasState(p)
  /\ \/ stateOf(This, p).firstCard = x
     \/ stateOf(This, p).secondCard = x

\* C31: when every player has at most one flip in flight, each cell a player
\* controls is the first or the second card of that player's turn state.
C31 ==
  \A x \in Pos :
    board[x].controller # Undef => recorded(board[x].controller, x)

\* C31 witness: one player controls a matched pair, the other a first card.
C31_Witness ==
  \E a, b, x \in Pos :
    /\ a # b /\ board[a].controller = "p1" /\ board[b].controller = "p1"
    /\ recorded("p1", a) /\ recorded("p1", b)
    /\ board[x].controller = "p2" /\ recorded("p2", x)

\* ------------------------------------------------------------------ C32
\* C32: also when several flips of one player are in flight at once, no cell
\* is controlled by a player whose turn state does not name it: a first flip
\* that goes on after its wait does not replace the first card its player
\* recorded in the meantime and leave that card controlled.
C32 ==
  \A p \in Players :
    \A x \in Pos : board[x].controller = p => recorded(p, x)

\* ------------------------------------------------------------------ C33
\* The flips in flight: suspended in watch(), or woken and waiting to go on.
flipsInFlight ==
  {listeners[i] : i \in {j \in 1 .. Len(listeners) : listeners[j].op = "flip"}}
    \cup {ready[i] : i \in {j \in 1 .. Len(ready) : ready[j].op = "flip"}}

\* C33 (part): a player with a flip in flight controls no cell.
C33_NoHold ==
  \A k \in flipsInFlight : \A x \in Pos : board[x].controller # k.player
\* C33 (part): only first flips are in flight: the state of the flip, which
\* is its player's, names no card.
C33_First ==
  \A k \in flipsInFlight :
    /\ playerStates[k.player] = k.state
    /\ objs[k.state] = newPlayerState
\* C33 (part): no flip in flight targets a cell controlled by a player who has
\* a flip in flight too.
C33_NoCycle ==
  \A k, l \in flipsInFlight : board[k.pos].controller # l.player

\* C33: when every player has at most one flip in flight, a player whose flip
\* is suspended controls no cell: only first flips suspend, after cleanup, so
\* there is no hold-and-wait and no cycle of blocked players.
C33 == C33_NoHold /\ C33_First /\ C33_NoCycle

\* C33 witness: a flip suspended on a card another player controls, whose
\* cleanup has removed a matched pair.
C33_Witness ==
  \E i \in 1 .. Len(listeners) :
    /\ listeners[i].op = "flip" /\ listeners[i].player = "p2"
    /\ board[listeners[i].pos].controller = "p1"
    /\ \E a \in Pos : ~hasCard(a)
    /\ \A a \in Pos : board[a].controller # "p2"

\* ------------------------------------------------------------------ C34
\* The cell holds a card, is face-up and is controlled by p.
heldBy(p, x) ==
  x \in Pos /\ hasCard(x) /\ board[x].faceUp /\ board[x].controller = p
\* The turn state of p is HoldingFirst(x), or HoldingPair with a match and x
\* one of the two cards.
holds(p, x) ==
  \/ HoldingFirst(p, x)
  \/ /\ hasState(p) /\ stateOf(This, p).hasMatch
     /\ stateOf(This, p).secondCard # NoCard
     /\ x \in {stateOf(This, p).firstCard, stateOf(This, p).secondCard}

\* C34 (part): the card of HoldingFirst and the two cards of a matched
\* HoldingPair, which are distinct, are on the board, face-up and controlled
\* by the player.
C34_Inv ==
  \A p \in Players :
    /\ hasState(p) /\ stateOf(This, p).hasMatch /\ stateOf(This, p).secondCard # NoCard
         => stateOf(This, p).firstCard # stateOf(This, p).secondCard
    /\ \A x \in Pos \cup {noneCard} : holds(p, x) => heldBy(p, x)
\* C34 (part): such a card loses its controller or leaves the board only by a
\* flip of the player, and a matched card only by being removed.
C34_Step ==
  board' # board =>
    \A x \in Pos :
      (board'[x].controller # board[x].controller \/ Len(board'[x].card) = 0) =>
        \A p \in Players :
          (holds(p, x) /\ (board'[x].controller # p \/ Len(board'[x].card) = 0)) =>
            /\ \E y \in Pos : flipsAt(p, y)
            /\ stateOf(This, p).hasMatch => Len(board'[x].card) = 0

\* C34: when every player has at most one flip in flight, the card of
\* HoldingFirst(x) and the two distinct cards of HoldingPair(a, b,
\* matched=true) hold a card, are face-up and are controlled by the player,
\* and nobody else takes or removes them before the player's own cleanup.
C34 == []C34_Inv /\ [][C34_Step]_vars

\* C34 witness: both players held a card, and the matched pair of one has
\* been removed by that player's cleanup.
C34_Witness ==
  \E a, b, x \in Pos :
    /\ a # b /\ ~hasCard(a) /\ ~hasCard(b)
    /\ HoldingFirst("p1", x) /\ heldBy("p1", x)
    /\ calls.flip >= 4

\* ------------------------------------------------------------------ C35
\* A cell without a card, face-down and uncontrolled.
gone(cell) == cell = [card |-> "", faceUp |-> FALSE, controller |-> Undef]

\* C35 (part): a cell without a card is face-down and uncontrolled.
C35_Inv == \A x \in Pos : ~hasCard(x) => gone(board[x])
\* C35 (part): flip rejects a target without a card, when called and when it
\* goes on after a wait.
C35_Rejects ==
  \A x \in Pos :
    ~hasCard(x) =>
      /\ \A p \in Players : flip(This, p, x[1], x[2]).kind = "throw"
      /\ \A i \in 1 .. Len(ready) :
           (ready[i].op = "flip" /\ ready[i].pos = x) =>
             flipResume(This, i).kind = "throw"
\* C35 (part): no step gives a card, a face or a controller to a cell without
\* a card.
C35_Step == \A x \in Pos : ~hasCard(x) => gone(board'[x])

\* C35: once a cell holds no card it never holds a card again and is never
\* face-up or controlled again: flip rejects it, also after a wait, and map
\* skips it, so the set of cells without a card only grows.
C35 == [](C35_Inv /\ C35_Rejects) /\ [][C35_Step]_vars

\* C35 witness: a map has relabelled the cards of a board on which two cells
\* had lost their card, and returned.
C35_Witness ==
  /\ calls.map > 0 /\ maps = <<>>
  /\ \E x \in Pos : ~hasCard(x)
  /\ \E y \in Pos : hasCard(y) /\ board[y].card \notin {"A", "B"}

\* ------------------------------------------------------------------ C36
\* The cells that hold a card, and those that lose it in this step.
cardCells == {x \in Pos : hasCard(x)}
cleared == {x \in Pos : hasCard(x) /\ Len(board'[x].card) = 0}

\* C36 (part): the number of cells with a card is even.
C36_Even == Cardinality(cardCells) % 2 = 0
\* C36 (part): as long as no map has been called, every label is on an even
\* number of cells.
C36_Labels ==
  calls.map = 0 =>
    \A x \in Pos :
      Cardinality({y \in Pos : board[y].card = board[x].card}) % 2 = 0
\* C36 (part): a step that clears cells is a flip of a player whose state is
\* HoldingPair(a, b, matched=true), and it clears a and b, two distinct cells
\* that held a card, and no other.
C36_Step ==
  cleared # {} =>
    \E p \in Players :
      /\ \E y \in Pos : flipsAt(p, y)
      /\ hasState(p) /\ stateOf(This, p).hasMatch
      /\ cleared = {stateOf(This, p).firstCard, stateOf(This, p).secondCard}
      /\ Cardinality(cleared) = 2

\* C36: cards leave the board only in pairs: every removal is done by the
\* cleanup of the player who matched the two cards and clears exactly two
\* distinct cells that held a card, so the number of cells with a card is
\* always even and, when no map is applied, so is the number of cells with
\* each label.
C36 == [](C36_Even /\ C36_Labels) /\ [][C36_Step]_vars

\* ------------------------------------------------------------------ C37
\* The state of p is a HoldingPair, with or without a second card on the
\* board, and x is its first or its second card.
pairNames(p, x) ==
  /\ hasState(p)
  /\ stateOf(This, p).firstCard # NoCard
  /\ stateOf(This, p).secondCard # NoCard
  /\ x \in {stateOf(This, p).firstCard, stateOf(This, p).secondCard}
\* A card that is face-up and that nobody controls.
relinquishedCard(x) ==
  hasCard(x) /\ board[x].faceUp /\ board[x].controller = Undef

\* C37: when every player has at most one flip in flight, every card that is
\* face-up with no controller is the first or second card of the HoldingPair
\* state of some player, whose cleanup is to turn it face-down.
C37 == \A x \in Pos : relinquishedCard(x) => \E p \in Players : pairNames(p, x)

\* C37 witness: a card that one player relinquished was left face-up by that
\* player's cleanup, because the pair of the other player names it.
C37_Witness ==
  \E x \in Pos :
    /\ relinquishedCard(x)
    /\ pairNames("p2", x) /\ ~pairNames("p1", x)
    /\ hasState("p1") /\ calls.flip >= 4

====
